---------------------------- MODULE Spec2Model ----------------------------
(***************************************************************************)
(* A model of ibgepy's pnadc module: the PnadcCodebook class (the three    *)
(* extractions get_widths, get_names, get_labels over one loaded codebook  *)
(* table) and the entry point read_pnadc (argument checks, codebook load,  *)
(* fixed-width parse, label substitution).                                 *)
(*                                                                         *)
(* Python values are tagged cells, so that a number, a string, a boolean   *)
(* and the absent value (NaN) stay distinct and comparable.  A codebook is *)
(* a sequence of rows with the four columns the methods read (tamanho,     *)
(* cod_var, categoria, descr_categoria); pos_inicial and descricao are     *)
(* loaded by __init__ but read by no method.  None is the empty sequence   *)
(* and a set attribute x is the one-element sequence <<x>>.                *)
(***************************************************************************)
EXTENDS Integers, Sequences, FiniteSets, TLC

VARIABLES
    pc,                  \* position of the caller: inside read_pnadc, or "object"
    microdata_filepath,  \* read_pnadc's first argument (a cell)
    codebook_filepath,   \* read_pnadc's second argument (a cell)
    label_values,        \* read_pnadc's third argument (a cell)
    trace,               \* the checks and file operations done so far, in order
    codebook,            \* PnadcCodebook.codebook: None or <<table>>
    widths,              \* PnadcCodebook.widths:   None or <<list>>
    names,               \* PnadcCodebook.names:    None or <<list>>
    labels,              \* PnadcCodebook.labels:   None or <<dict>>
    microdata,           \* the lines read_fwf read: None or <<lines>>
    pnadc,               \* read_pnadc's local pnadc: None or <<table>>
    outcome              \* the last call's outcome: the exception raised, or "none"

vars == <<pc, microdata_filepath, codebook_filepath, label_values, trace,
          codebook, widths, names, labels, microdata, pnadc, outcome>>

-----------------------------------------------------------------------------
(* Bounds of the model. *)

\* rows of a generated codebook table
MaxRows == 2

\* characters of a generated microdata file, all lines together
MaxFileChars == 2

-----------------------------------------------------------------------------
(* Python values. *)

NaN == [t |-> "nan", n |-> 0, s |-> ""]

Num(i) == [t |-> "num", n |-> i, s |-> ""]

Str(x) == [t |-> "str", n |-> 0, s |-> x]

PyBool(b) == [t |-> "bool", n |-> IF b THEN 1 ELSE 0, s |-> ""]

None == <<>>

Some(x) == <<x>>

\* pandas.isna on one cell
isna(c) == c.t = "nan"

\* isinstance(x, str)
isinstance_str(x) == x.t = "str"

\* isinstance(x, bool)
isinstance_bool(x) == x.t = "bool"

\* the decimal digits and their values
Digit == ("0" :> 0) @@ ("1" :> 1) @@ ("2" :> 2) @@ ("3" :> 3) @@ ("4" :> 4)
         @@ ("5" :> 5) @@ ("6" :> 6) @@ ("7" :> 7) @@ ("8" :> 8) @@ ("9" :> 9)

\* the literal get_labels replaces by nan
Sentinel == "Não informado"

Row(w, v, c, d) == [tamanho |-> w, cod_var |-> v, categoria |-> c,
                    descr_categoria |-> d]

Column(df, col) == [i \in 1..Len(df) |-> df[i][col]]

\* Series.dropna
dropna(series) == SelectSeq(series, LAMBDA c : ~isna(c))

-----------------------------------------------------------------------------
(* PnadcCodebook: the three extractions, as functions of the loaded table. *)

\* Outcome of a call: the value returned, or the exception raised.
Returned(v) == [err |-> "none", val |-> Some(v)]

Raised(e) == [err |-> e, val |-> None]

\* int(x) of one retained cell, as Series.astype("int") applies it
\* (a one-character string is read as its digit; any other string fails)
astype_int_ok(c) == c.t = "num" \/ (c.t = "str" /\ c.s \in DOMAIN Digit)

astype_int(c) == IF c.t = "num" THEN c.n ELSE Digit[c.s]

\* get_widths with fillna(0) in place of dropna: a row without a width
\* yields a 0 instead of being left out
get_widths_fillna(cb) ==
    LET col == Column(cb, "tamanho")
    IN  IF \A i \in 1..Len(col) : isna(col[i]) \/ astype_int_ok(col[i])
        THEN Returned([i \in 1..Len(col) |->
                          IF isna(col[i]) THEN 0 ELSE astype_int(col[i])])
        ELSE Raised("ValueError")

\* self.codebook["tamanho"].dropna().astype("int").to_list()
get_widths(cb) ==
    LET kept == dropna(Column(cb, "tamanho"))
    IN  IF \A i \in 1..Len(kept) : astype_int_ok(kept[i])
        THEN Returned([i \in 1..Len(kept) |-> astype_int(kept[i])])
        ELSE Raised("ValueError")

\* self.codebook["cod_var"].dropna().to_list()
get_names(cb) == Returned(dropna(Column(cb, "cod_var")))

\* to_numeric with errors="ignore": a value that is no number is kept
to_numeric_ignore(c) ==
    IF c.t = "str" /\ c.s \in DOMAIN Digit THEN Num(Digit[c.s]) ELSE c

\* pd.to_numeric(x, errors="coerce") on one cell
to_numeric(c) ==
    CASE c.t = "num" -> c
      [] c.t = "str" /\ c.s \in DOMAIN Digit -> Num(Digit[c.s])
      [] OTHER -> NaN

\* .apply(lambda x: pd.to_numeric(x, errors="coerce") if x.name == "categoria" else x)
coerce_categoria(df) ==
    [i \in 1..Len(df) |-> [df[i] EXCEPT !.categoria = to_numeric(@)]]

\* dropna() without subset: a row with any absent cell among category-code
\* and description is dropped
dropna_any(df) ==
    SelectSeq(df, LAMBDA r : ~isna(r.categoria) /\ ~isna(r.descr_categoria)
                             /\ r.descr_categoria # Str(Sentinel))

\* .dropna(subset="categoria")
dropna_categoria(df) == SelectSeq(df, LAMBDA r : ~isna(r.categoria))

\* .replace(to_replace={"descr_categoria": {"Não informado": nan}})
replace_sentinel(df) ==
    [i \in 1..Len(df) |->
        IF df[i].descr_categoria = Str(Sentinel)
        THEN [df[i] EXCEPT !.descr_categoria = NaN]
        ELSE df[i]]

\* no forward fill: a category row keeps its absent variable-code
ffill_none(df) == df

\* dict_labels["cod_var"] = dict_labels["cod_var"].fillna(method="ffill")
ffill(df) ==
    LET f[i \in 0..Len(df)] ==
            IF i = 0 THEN NaN
            ELSE IF isna(df[i].cod_var) THEN f[i - 1] ELSE df[i].cod_var
    IN  [i \in 1..Len(df) |-> [df[i] EXCEPT !.cod_var = f[i]]]

\* {tr: v for (tr, v) in zip(x["categoria"], x["descr_categoria"])}:
\* a later pair with the same key overwrites an earlier one
zip_dict(x) ==
    [k \in {x[i].categoria : i \in 1..Len(x)} |->
        LET last == CHOOSE i \in 1..Len(x) :
                        /\ x[i].categoria = k
                        /\ \A j \in (i + 1)..Len(x) : x[j].categoria # k
        IN  x[last].descr_categoria]

\* dict_labels.groupby("cod_var").apply(...).to_dict(): one entry per
\* non-absent cod_var (groupby drops the rows whose key is absent).  With no
\* group at all pandas returns an empty frame, whose to_dict has no
\* (category-code, description) entry either: the empty mapping stands for it.
groupby_cod_var(df) ==
    [v \in {df[i].cod_var : i \in {j \in 1..Len(df) : ~isna(df[j].cod_var)}} |->
        zip_dict(SelectSeq(df, LAMBDA r : r.cod_var = v))]

get_labels(cb) ==
    Returned(groupby_cod_var(
        ffill(replace_sentinel(dropna_categoria(coerce_categoria(cb))))))

-----------------------------------------------------------------------------
(* pandas.read_fwf and DataFrame.replace, as read_pnadc uses them (no      *)
(* keyword options forwarded).  A file is a sequence of non-blank lines, a *)
(* line a sequence of characters.                                          *)

Table(cols, rows) == [columns |-> cols, rows |-> rows]

\* first character position of each field: the widths before it, summed
offset(ws, j) ==
    LET f[i \in 0..Len(ws)] == IF i = 0 THEN 0 ELSE f[i - 1] + ws[i]
    IN  f[j - 1]

\* the characters of field j in one line (a short line gives a short field)
field(line, ws, j) ==
    LET from == offset(ws, j) + 1
        to   == IF offset(ws, j) + ws[j] < Len(line)
                THEN offset(ws, j) + ws[j] ELSE Len(line)
    IN  IF from > to THEN <<>> ELSE SubSeq(line, from, to)

is_digits(tok) == tok # <<>> /\ \A i \in 1..Len(tok) : tok[i] \in DOMAIN Digit

\* the number a token of digits denotes
parse_int(tok) ==
    LET f[i \in 0..Len(tok)] == IF i = 0 THEN 0 ELSE 10 * f[i - 1] + Digit[tok[i]]
    IN  f[Len(tok)]

\* the token as one string
join(tok) ==
    LET f[i \in 0..Len(tok)] == IF i = 0 THEN "" ELSE f[i - 1] \o tok[i]
    IN  f[Len(tok)]

\* the parser's type inference: a column whose tokens are all digits or
\* empty is numeric, any other column keeps its tokens as strings; an empty
\* token is absent in both
parse_column(toks) ==
    LET numeric == \A i \in 1..Len(toks) : toks[i] = <<>> \/ is_digits(toks[i])
    IN  [i \in 1..Len(toks) |->
            IF toks[i] = <<>> THEN NaN
            ELSE IF numeric THEN Num(parse_int(toks[i]))
            ELSE Str(join(toks[i]))]

has_duplicates(seq) == \E i, j \in 1..Len(seq) : i < j /\ seq[i] = seq[j]

\* read_fwf's check of its arguments, made before the file is opened:
\* pandas refuses names that differ in number from the widths, and
\* duplicate names
refuses(ws, cols) == Len(cols) # Len(ws) \/ has_duplicates(cols)

\* the table parsed from the lines
parse(lines, ws, cols) ==
    LET column(j) == parse_column([k \in 1..Len(lines) |-> field(lines[k], ws, j)])
        columns == [j \in 1..Len(ws) |-> column(j)]
    IN  Table(cols, [i \in 1..Len(lines) |-> [j \in 1..Len(ws) |-> columns[j][i]]])

\* pd.read_fwf(filepath_or_buffer=..., widths=widths, names=col_names): the
\* set of possible outcomes.  With no column at all the outcome depends on
\* the pandas version (an error, or a table of no columns).
read_fwf(lines, ws, cols) ==
    IF refuses(ws, cols)
    THEN {Raised("ValueError")}
    ELSE IF Len(ws) = 0
    THEN {Raised("EmptyDataError"), Returned(parse(lines, ws, cols))}
    ELSE {Returned(parse(lines, ws, cols))}

\* the substitution done as Series.map does it: a value that is no key of
\* the column's mapping becomes absent
replace_as_map(df, to_replace) ==
    Table(df.columns,
          [i \in 1..Len(df.rows) |->
              [j \in 1..Len(df.columns) |->
                  IF df.columns[j] \in DOMAIN to_replace
                  THEN IF df.rows[i][j] \in DOMAIN to_replace[df.columns[j]]
                       THEN to_replace[df.columns[j]][df.rows[i][j]]
                       ELSE NaN
                  ELSE df.rows[i][j]]])

\* pnadc.replace(to_replace=labels): in each column named by the mapping, a
\* value that is a key of that column's mapping becomes the mapped value;
\* every other value, and every other column, is left as it is
replace(df, to_replace) ==
    Table(df.columns,
          [i \in 1..Len(df.rows) |->
              [j \in 1..Len(df.columns) |->
                  IF /\ df.columns[j] \in DOMAIN to_replace
                     /\ df.rows[i][j] \in DOMAIN to_replace[df.columns[j]]
                  THEN to_replace[df.columns[j]][df.rows[i][j]]
                  ELSE df.rows[i][j]]])

-----------------------------------------------------------------------------
(* The inputs: arguments, the files on disk, their contents. *)

\* the paths that exist on disk (os.path.exists answers TRUE for exactly these)
ExistingPaths == {"pnadc.txt", "dicionario.xls"}

MicrodataArgs == {Str("pnadc.txt"), Str("missing.txt"), Num(0)}

CodebookArgs == {Str("dicionario.xls"), Str("missing.xls"), Num(0)}

FlagArgs == {PyBool(TRUE), PyBool(FALSE), Num(1)}

Tables(rows) == UNION {[1..n -> rows] : n \in 0..MaxRows}

\* rows that vary in width and variable-code only
WidthNameRows ==
    {Row(w, v, NaN, NaN) :
        w \in {NaN, Num(0), Num(1), Num(2), Str("2"), Str("x")},
        v \in {NaN, Str("V1"), Str("V2")}}

\* rows that vary in variable-code, category-code and description only
LabelRows ==
    {Row(NaN, v, c, d) :
        v \in {NaN, Str("V1"), Str("V2")},
        c \in {NaN, Num(1), Str("2"), Str("a")},
        d \in {NaN, Str("Yes"), Str(Sentinel)}}

\* the tables the methods of a PnadcCodebook object are called on
ObjectCodebooks == Tables(WidthNameRows) \cup Tables(LabelRows)

\* the category part of a row of the codebooks read_pnadc loads
Categories == {<<NaN, NaN>>, <<Num(1), Str("Yes")>>, <<Num(1), Str(Sentinel)>>}

ReadRows ==
    {Row(w, v, cd[1], cd[2]) :
        w \in {NaN, Num(1), Num(2)},
        v \in {NaN, Str("V1"), Str("V2")},
        cd \in Categories}

\* the codebook of the specification's scenario, as written there
ScenarioCodebook ==
    << Row(Num(1), Str("V1"), Num(1), Str("Yes")),
       Row(Num(1), Str("V1"), Num(2), Str("No")),
       Row(Num(2), Str("V2"), NaN, NaN) >>

\* the same variables laid out as IBGE's codebooks are: width and
\* variable-code on a variable's first category row only
LayoutCodebook ==
    << Row(Num(1), Str("V1"), Num(1), Str("Yes")),
       Row(NaN, NaN, Num(2), Str("No")),
       Row(Num(2), Str("V2"), NaN, NaN) >>

CodebookFiles == Tables(ReadRows) \cup {ScenarioCodebook, LayoutCodebook}

Alphabet == {"1", "a"}

FileChars(f) ==
    LET g[i \in 0..Len(f)] == IF i = 0 THEN 0 ELSE g[i - 1] + Len(f[i])
    IN  g[Len(f)]

Lines == UNION {[1..n -> Alphabet] : n \in 1..MaxFileChars}

\* the scenario's microdata file: the one line "13"
ScenarioFile == << <<"1", "3">> >>

MicrodataFiles ==
    {f \in UNION {[1..k -> Lines] : k \in 0..MaxFileChars} :
        FileChars(f) <= MaxFileChars} \cup {ScenarioFile}

-----------------------------------------------------------------------------
(* read_pnadc, one action per step of its body. *)

\* An outcome: the kind of exception ("none" for a normal return) and the
\* check or call it comes from.
Error(kind, at) == [kind |-> kind, at |-> at]

NoError == Error("none", "")

\* os.path.exists
exists(path) == path.s \in ExistingPaths

\* "if label_values is not None:" in place of "if label_values:"
truthy_not_none(x) == x.t # "nan"

\* if label_values:
truthy(x) == x.n # 0

Init ==
    /\ pc = "check_microdata"
    /\ microdata_filepath \in MicrodataArgs
    /\ codebook_filepath \in CodebookArgs
    /\ label_values \in FlagArgs
    /\ trace = <<>>
    /\ codebook = None
    /\ widths = None
    /\ names = None
    /\ labels = None
    /\ microdata = None
    /\ pnadc = None
    /\ outcome = NoError

\* the check of microdata_filepath without the os.path.exists probe
CheckMicrodataNoProbe ==
    /\ pc = "check_microdata"
    /\ trace' = Append(trace, "isinstance(microdata_filepath)")
    /\ IF isinstance_str(microdata_filepath)
       THEN pc' = "check_codebook" /\ outcome' = outcome
       ELSE pc' = "raised" /\ outcome' = Error("TypeError", "microdata_filepath")
    /\ UNCHANGED <<microdata_filepath, codebook_filepath, label_values,
                   codebook, widths, names, labels, microdata, pnadc>>

\* # Check microdata_path
CheckMicrodata ==
    /\ pc = "check_microdata"
    /\ IF isinstance_str(microdata_filepath)
       THEN /\ trace' = trace \o <<"isinstance(microdata_filepath)",
                                    "exists(microdata_filepath)">>
            /\ IF exists(microdata_filepath)
               THEN pc' = "check_codebook" /\ outcome' = outcome
               ELSE pc' = "raised" /\ outcome' = Error("FileNotFoundError", "microdata_filepath")
       ELSE /\ trace' = Append(trace, "isinstance(microdata_filepath)")
            /\ pc' = "raised"
            /\ outcome' = Error("TypeError", "microdata_filepath")
    /\ UNCHANGED <<microdata_filepath, codebook_filepath, label_values,
                   codebook, widths, names, labels, microdata, pnadc>>

\* # Check codebook_filepath
CheckCodebook ==
    /\ pc = "check_codebook"
    /\ IF isinstance_str(codebook_filepath)
       THEN /\ trace' = trace \o <<"isinstance(codebook_filepath)",
                                    "exists(codebook_filepath)">>
            /\ IF exists(codebook_filepath)
               THEN pc' = "check_label_values" /\ outcome' = outcome
               ELSE pc' = "raised" /\ outcome' = Error("FileNotFoundError", "codebook_filepath")
       ELSE /\ trace' = Append(trace, "isinstance(codebook_filepath)")
            /\ pc' = "raised"
            /\ outcome' = Error("TypeError", "codebook_filepath")
    /\ UNCHANGED <<microdata_filepath, codebook_filepath, label_values,
                   codebook, widths, names, labels, microdata, pnadc>>

\* the check of label_values made on its truth value, not on its type
CheckLabelValuesTruth ==
    /\ pc = "check_label_values"
    /\ trace' = Append(trace, "isinstance(label_values)")
    /\ IF isna(label_values)
       THEN pc' = "raised" /\ outcome' = Error("TypeError", "label_values")
       ELSE pc' = "construct" /\ outcome' = outcome
    /\ UNCHANGED <<microdata_filepath, codebook_filepath, label_values,
                   codebook, widths, names, labels, microdata, pnadc>>

\* # Check label_values
CheckLabelValues ==
    /\ pc = "check_label_values"
    /\ trace' = Append(trace, "isinstance(label_values)")
    /\ IF ~isinstance_bool(label_values)
       THEN pc' = "raised" /\ outcome' = Error("TypeError", "label_values")
       ELSE pc' = "construct" /\ outcome' = outcome
    /\ UNCHANGED <<microdata_filepath, codebook_filepath, label_values,
                   codebook, widths, names, labels, microdata, pnadc>>

\* pnadc_dict = PnadcCodebook(codebook_filepath=codebook_filepath): the
\* table is whatever the spreadsheet holds when pd.read_excel reads it
Construct ==
    /\ pc = "construct"
    /\ \E cb \in CodebookFiles : codebook' = Some(cb)
    /\ widths' = None
    /\ names' = None
    /\ labels' = None
    /\ trace' = Append(trace, "read_excel(codebook_filepath)")
    /\ pc' = "get_widths"
    /\ UNCHANGED <<microdata_filepath, codebook_filepath, label_values,
                   microdata, pnadc, outcome>>

\* widths = pnadc_dict.get_widths()
CallGetWidths ==
    /\ pc = "get_widths"
    /\ LET r == get_widths(codebook[1])
       IN  IF r.err = "none"
           THEN widths' = r.val /\ pc' = "get_names" /\ outcome' = outcome
           ELSE widths' = widths /\ pc' = "raised" /\ outcome' = Error(r.err, "get_widths")
    /\ UNCHANGED <<microdata_filepath, codebook_filepath, label_values, trace,
                   codebook, names, labels, microdata, pnadc>>

\* col_names = pnadc_dict.get_names()
CallGetNames ==
    /\ pc = "get_names"
    /\ names' = get_names(codebook[1]).val
    /\ pc' = "read_fwf"
    /\ UNCHANGED <<microdata_filepath, codebook_filepath, label_values, trace,
                   codebook, widths, labels, microdata, pnadc, outcome>>

\* pnadc = pd.read_fwf(filepath_or_buffer=microdata_filepath, widths=widths,
\*                     names=col_names): the lines are whatever the file
\* holds; a call that raises leaves the local pnadc unassigned
ReadFwf ==
    /\ pc = "read_fwf"
    /\ IF refuses(widths[1], names[1])
       THEN /\ UNCHANGED <<microdata, pnadc>>
            /\ pc' = "raised"
            /\ outcome' = Error("ValueError", "read_fwf")
       ELSE \E lines \in MicrodataFiles :
              \E r \in read_fwf(lines, widths[1], names[1]) :
                 IF r.err = "none"
                 THEN /\ microdata' = Some(lines)
                      /\ pnadc' = r.val
                      /\ pc' = "label"
                      /\ outcome' = outcome
                 ELSE /\ UNCHANGED <<microdata, pnadc>>
                      /\ pc' = "raised"
                      /\ outcome' = Error(r.err, "read_fwf")
    /\ trace' = Append(trace, "read_fwf(microdata_filepath)")
    /\ UNCHANGED <<microdata_filepath, codebook_filepath, label_values,
                   codebook, widths, names, labels>>

\* if label_values: labels = pnadc_dict.get_labels();
\*                  pnadc = pnadc.replace(to_replace=labels)
ApplyLabels ==
    /\ pc = "label"
    /\ IF truthy(label_values)
       THEN /\ labels' = get_labels(codebook[1]).val
            /\ pnadc' = Some(replace(pnadc[1], labels'[1]))
       ELSE UNCHANGED <<labels, pnadc>>
    /\ pc' = "return"
    /\ UNCHANGED <<microdata_filepath, codebook_filepath, label_values, trace,
                   codebook, widths, names, microdata, outcome>>

\* return pnadc
Return ==
    /\ pc = "return"
    /\ pc' = "done"
    /\ UNCHANGED <<microdata_filepath, codebook_filepath, label_values, trace,
                   codebook, widths, names, labels, microdata, pnadc, outcome>>

Next ==
    \/ CheckMicrodata
    \/ CheckCodebook
    \/ CheckLabelValues
    \/ Construct
    \/ CallGetWidths
    \/ CallGetNames
    \/ ReadFwf
    \/ ApplyLabels
    \/ Return

Spec == Init /\ [][Next]_vars

-----------------------------------------------------------------------------
(* A PnadcCodebook object whose methods a caller invokes directly, in any  *)
(* order and any number of times.                                          *)

InitCodebook ==
    /\ pc = "object"
    /\ microdata_filepath = NaN
    /\ codebook_filepath = Str("dicionario.xls")
    /\ label_values = NaN
    /\ trace = <<"read_excel(codebook_filepath)">>
    /\ codebook \in {Some(cb) : cb \in ObjectCodebooks}
    /\ widths = None
    /\ names = None
    /\ labels = None
    /\ microdata = None
    /\ pnadc = None
    /\ outcome = NoError

\* PnadcCodebook.get_widths
MethodGetWidths ==
    /\ pc = "object"
    /\ LET r == get_widths(codebook[1])
       IN  IF r.err = "none"
           THEN widths' = r.val /\ outcome' = Error("none", "get_widths")
           ELSE widths' = widths /\ outcome' = Error(r.err, "get_widths")
    /\ UNCHANGED <<pc, microdata_filepath, codebook_filepath, label_values,
                   trace, codebook, names, labels, microdata, pnadc>>

\* PnadcCodebook.get_names
MethodGetNames ==
    /\ pc = "object"
    /\ names' = get_names(codebook[1]).val
    /\ outcome' = Error("none", "get_names")
    /\ UNCHANGED <<pc, microdata_filepath, codebook_filepath, label_values,
                   trace, codebook, widths, labels, microdata, pnadc>>

\* PnadcCodebook.get_labels
MethodGetLabels ==
    /\ pc = "object"
    /\ labels' = get_labels(codebook[1]).val
    /\ outcome' = Error("none", "get_labels")
    /\ UNCHANGED <<pc, microdata_filepath, codebook_filepath, label_values,
                   trace, codebook, widths, names, microdata, pnadc>>

NextCodebook ==
    \/ MethodGetWidths
    \/ MethodGetNames
    \/ MethodGetLabels

SpecCodebook == InitCodebook /\ [][NextCodebook]_vars

-----------------------------------------------------------------------------
(* Properties of the PnadcCodebook methods, under SpecCodebook. *)

\* the rows of a table that hold a width, and those that hold a variable-code
WidthRows(cb) == {i \in 1..Len(cb) : ~isna(cb[i].tamanho)}

NameRows(cb) == {i \in 1..Len(cb) : ~isna(cb[i].cod_var)}

\* the position, among the rows in S, of row i
Rank(S, i) == Cardinality({j \in S : j <= i})

\* the cell is a number, or text that reads as one
IsNumeric(c) == c.t = "num" \/ (c.t = "str" /\ c.s \in DOMAIN Digit)

NumericValue(c) == IF c.t = "num" THEN c.n ELSE Digit[c.s]

\* C2: once both have been returned, get_widths' list and get_names' list
\* have the same length and element k of each comes from the same codebook
\* row, whatever rows the codebook has.
C2_WidthsNamesAligned ==
    (pc = "object" /\ widths # None /\ names # None) =>
        /\ Len(widths[1]) = Len(names[1])
        /\ \A k \in 1..Len(widths[1]) :
              \E i \in WidthRows(codebook[1]) \cap NameRows(codebook[1]) :
                  /\ Rank(WidthRows(codebook[1]), i) = k
                  /\ Rank(NameRows(codebook[1]), i) = k

\* the value get_widths returned is the widths of the rows that hold one,
\* as integers and in row order
WidthsFollowRows ==
    widths # None =>
        /\ Len(widths[1]) = Cardinality(WidthRows(codebook[1]))
        /\ \A i \in WidthRows(codebook[1]) :
              /\ IsNumeric(codebook[1][i].tamanho)
              /\ widths[1][Rank(WidthRows(codebook[1]), i)]
                    = NumericValue(codebook[1][i].tamanho)

\* get_widths raises the coercion error exactly when a retained width is
\* not numeric, and then returns nothing
WidthsCoercion ==
    LET bad == \E i \in WidthRows(codebook[1]) : ~IsNumeric(codebook[1][i].tamanho)
    IN  /\ bad => widths = None
        /\ outcome.at = "get_widths" => (outcome.kind = "ValueError" <=> bad)
        /\ outcome.at = "get_widths" /\ ~bad => widths # None

\* C7 as stated: get_widths returns only positive integers, one per codebook
\* row that has a width and in row order, and fails with a coercion error
\* when a retained width is not numeric.
C7_WidthsPositive ==
    pc = "object" =>
        /\ WidthsFollowRows
        /\ WidthsCoercion
        /\ widths # None => \A k \in 1..Len(widths[1]) : widths[1][k] > 0

\* C7 amended: get_widths returns one integer per codebook row that has a
\* width, in row order, each the value of that row's width cell (so a zero
\* width is returned as it is), and fails with a coercion error when a
\* retained width is not numeric.
C7_WidthsAsInCodebook ==
    pc = "object" => WidthsFollowRows /\ WidthsCoercion

\* get_widths has returned a zero width out of a table with a row left out
C7_Witness ==
    /\ pc = "object"
    /\ outcome = Error("none", "get_widths")
    /\ widths = Some(<<0>>)
    /\ Len(codebook[1]) = 2
    /\ isna(codebook[1][1].tamanho)

\* C3: the mapping get_labels returned has no "Não informado" description,
\* and every key of a variable's mapping is a number that some codebook row
\* has as its category-code.
C3_NoSentinelNoAbsentKey ==
    (pc = "object" /\ labels # None) =>
        \A v \in DOMAIN labels[1] : \A k \in DOMAIN labels[1][v] :
            /\ labels[1][v][k] # Str(Sentinel)
            /\ k.t = "num"
            /\ \E i \in 1..Len(codebook[1]) :
                  /\ IsNumeric(codebook[1][i].categoria)
                  /\ NumericValue(codebook[1][i].categoria) = k.n

\* a mapping was returned for a table that has a sentinel row and a row whose
\* category-code is not numeric
C3_Witness ==
    /\ pc = "object"
    /\ labels # None
    /\ DOMAIN labels[1] # {}
    /\ \E i \in 1..Len(codebook[1]) : codebook[1][i].descr_categoria = Str(Sentinel)
    /\ \E i \in 1..Len(codebook[1]) : codebook[1][i].categoria = Str("a")

\* the variable get_labels files row i under: the variable-code of the
\* nearest row, at or before i, that has a numeric category-code and a
\* variable-code (absent when there is none)
Owner(cb, i) ==
    LET S == {j \in 1..i : IsNumeric(cb[j].categoria) /\ ~isna(cb[j].cod_var)}
    IN  IF S = {} THEN NaN
        ELSE cb[CHOOSE j \in S : \A m \in S : m <= j].cod_var

\* the category rows whose description is missing or the sentinel, and that
\* get_labels files under some variable
UndescribedRows(cb) ==
    {i \in 1..Len(cb) :
        /\ IsNumeric(cb[i].categoria)
        /\ cb[i].descr_categoria \in {NaN, Str(Sentinel)}
        /\ ~isna(Owner(cb, i))}

Key(cb, i) == Num(NumericValue(cb[i].categoria))

Cursor(cb, i) ==
    LET S == {j \in 1..i : ~isna(cb[j].cod_var)}
    IN  IF S = {} THEN NaN
        ELSE cb[CHOOSE j \in S : \A m \in S : m <= j].cod_var

\* The mapping the single pass builds: each row with a numeric category-code
\* adds (category-code, description) to the cursor variable's mapping, a
\* later pair replacing an earlier one with the same code; the description
\* is taken as get_labels takes it (the sentinel as absent).
SinglePassLabels(cb) ==
    LET valid == {i \in 1..Len(cb) :
                     IsNumeric(cb[i].categoria) /\ ~isna(Cursor(cb, i))}
        descr(i) == IF cb[i].descr_categoria = Str(Sentinel)
                    THEN NaN ELSE cb[i].descr_categoria
    IN  [v \in {Cursor(cb, i) : i \in valid} |->
            LET mine == {i \in valid : Cursor(cb, i) = v}
            IN  [k \in {Key(cb, i) : i \in mine} |->
                    descr(CHOOSE i \in mine :
                              /\ Key(cb, i) = k
                              /\ \A j \in mine : Key(cb, j) = k => j <= i)]]

\* C9: get_labels returns the mapping the single pass over all rows builds.
C9_LabelsEqualSinglePass ==
    (pc = "object" /\ labels # None) => labels[1] = SinglePassLabels(codebook[1])

-----------------------------------------------------------------------------
(* Properties of read_pnadc, under Spec. *)

MicrodataMissing ==
    isinstance_str(microdata_filepath) /\ microdata_filepath.s \notin ExistingPaths

CodebookMissing ==
    isinstance_str(codebook_filepath) /\ codebook_filepath.s \notin ExistingPaths

MicrodataValid == isinstance_str(microdata_filepath) /\ ~MicrodataMissing

CodebookValid == isinstance_str(codebook_filepath) /\ ~CodebookMissing

\* an argument of the kinds C1 lists is invalid
ListedInvalid ==
    \/ MicrodataMissing
    \/ ~isinstance_str(microdata_filepath)
    \/ ~isinstance_str(codebook_filepath)
    \/ ~isinstance_bool(label_values)

\* no file has been loaded or parsed
NoFileRead ==
    \A k \in 1..Len(trace) :
        trace[k] \notin {"read_excel(codebook_filepath)", "read_fwf(microdata_filepath)"}

InChecks == pc \in {"check_microdata", "check_codebook", "check_label_values", "raised"}

\* C1 as stated: a missing microdata path raises the not-found error, a
\* non-string microdata or codebook path raises a type error, a non-boolean
\* flag raises a type error, each before any file is loaded or parsed.
C1_ListedErrors ==
    ListedInvalid =>
        /\ NoFileRead
        /\ InChecks
        /\ pc = "raised" =>
              /\ MicrodataMissing => outcome.kind = "FileNotFoundError"
              /\ ~isinstance_str(microdata_filepath) => outcome.kind = "TypeError"
              /\ ~isinstance_str(codebook_filepath) => outcome.kind = "TypeError"
              /\ ~isinstance_bool(label_values) => outcome.kind = "TypeError"

\* C1 amended: each of these invalid arguments makes the call raise before
\* any file is loaded or parsed; the error is the not-found error for a
\* missing microdata path, a type error for a non-string microdata path, a
\* type error for a non-string codebook path when the microdata path is
\* valid, and a type error for a non-boolean flag when both paths are valid.
C1_ListedErrorsFirstWins ==
    ListedInvalid =>
        /\ NoFileRead
        /\ InChecks
        /\ pc = "raised" =>
              /\ outcome.kind \in {"FileNotFoundError", "TypeError"}
              /\ MicrodataMissing => outcome.kind = "FileNotFoundError"
              /\ ~isinstance_str(microdata_filepath) => outcome.kind = "TypeError"
              /\ (MicrodataValid /\ ~isinstance_str(codebook_filepath))
                    => outcome.kind = "TypeError"
              /\ (MicrodataValid /\ CodebookValid /\ ~isinstance_bool(label_values))
                    => outcome.kind = "TypeError"

\* the call has raised the type error of a non-boolean flag, no file read
C1_Witness ==
    /\ pc = "raised"
    /\ ~isinstance_bool(label_values)
    /\ outcome = Error("TypeError", "label_values")
    /\ NoFileRead

\* the checks and file operations of read_pnadc, in the order of its body
CheckOrder ==
    << "isinstance(microdata_filepath)", "exists(microdata_filepath)",
       "isinstance(codebook_filepath)", "exists(codebook_filepath)",
       "isinstance(label_values)",
       "read_excel(codebook_filepath)", "read_fwf(microdata_filepath)" >>

\* the place of an operation in that order
Place(op) == CHOOSE k \in 1..Len(CheckOrder) : CheckOrder[k] = op

\* the operations done so far are operations of that order, done in it
InCheckOrder ==
    /\ \A k \in 1..Len(trace) : \E m \in 1..Len(CheckOrder) : CheckOrder[m] = trace[k]
    /\ \A i, j \in 1..Len(trace) : i < j => Place(trace[i]) < Place(trace[j])

\* the error of the first check, in that order, that the arguments fail
FirstFailure ==
    CASE ~isinstance_str(microdata_filepath) -> Error("TypeError", "microdata_filepath")
      [] MicrodataMissing -> Error("FileNotFoundError", "microdata_filepath")
      [] ~isinstance_str(codebook_filepath) -> Error("TypeError", "codebook_filepath")
      [] CodebookMissing -> Error("FileNotFoundError", "codebook_filepath")
      [] ~isinstance_bool(label_values) -> Error("TypeError", "label_values")
      [] OTHER -> NoError

\* C10: the checks run in the order microdata path is a string, microdata
\* path exists, codebook path is a string, codebook path exists, flag is a
\* boolean; the error raised is that of the first failing check, so a
\* non-boolean flag yields its type error only if both paths are valid, and
\* the microdata probe precedes the checks of the codebook path and the flag.
C10_FirstFailingCheck ==
    /\ InCheckOrder
    /\ FirstFailure # NoError =>
          /\ InChecks
          /\ pc = "raised" => outcome = FirstFailure
    /\ outcome = Error("TypeError", "label_values") =>
          MicrodataValid /\ CodebookValid
    /\ \A k \in 1..Len(trace) :
          trace[k] \in {"isinstance(codebook_filepath)", "isinstance(label_values)"} =>
              \E m \in 1..(k - 1) : trace[m] = "exists(microdata_filepath)"

\* a missing microdata path has masked a non-string codebook path and a
\* non-boolean flag
C10_Witness ==
    /\ pc = "raised"
    /\ MicrodataMissing
    /\ ~isinstance_str(codebook_filepath)
    /\ ~isinstance_bool(label_values)
    /\ outcome = Error("FileNotFoundError", "microdata_filepath")

\* the raw parse of the lines read, with the codebook's widths and names
RawParse == parse(microdata[1], widths[1], names[1])

\* the call returned a table
ReturnedTable == pc = "done" /\ pnadc # None

\* the cells of the returned table in the columns the mapping names
LabelledCells ==
    {<<i, j>> \in (1..Len(pnadc[1].rows)) \X (1..Len(pnadc[1].columns)) :
        pnadc[1].columns[j] \in DOMAIN labels[1]}

C5_UnlabelledIsRaw ==
    (ReturnedTable /\ label_values = PyBool(FALSE)) =>
        /\ widths = get_widths(codebook[1]).val
        /\ names = get_names(codebook[1]).val
        /\ pnadc[1] = RawParse
        /\ labels = None

\* a table was returned unlabelled although the codebook gives a label for
\* a value the table holds
C5_Witness ==
    /\ ReturnedTable
    /\ label_values = PyBool(FALSE)
    /\ LET map == get_labels(codebook[1]).val[1]
       IN  \E i \in 1..Len(pnadc[1].rows) : \E j \in 1..Len(pnadc[1].columns) :
              /\ pnadc[1].columns[j] \in DOMAIN map
              /\ pnadc[1].rows[i][j] \in DOMAIN map[pnadc[1].columns[j]]

\* the scenario's expected results
ScenarioLabels ==
    Str("V1") :> ((Num(1) :> Str("Yes")) @@ (Num(2) :> Str("No")))

ScenarioRow == << Str("Yes"), Num(3) >>

\* what the scenario expects of a call that loaded the table cb
ScenarioResults(cb) ==
    codebook = Some(cb) =>
        /\ widths # None => widths[1] = <<1, 2>>
        /\ names # None => names[1] = <<Str("V1"), Str("V2")>>
        /\ labels # None => labels[1] = ScenarioLabels
        /\ outcome.at # "read_fwf"
        /\ (ReturnedTable /\ label_values = PyBool(TRUE) /\ microdata = Some(ScenarioFile))
              => pnadc[1].rows = << ScenarioRow >>

\* C6 as stated: for the scenario's codebook rows (1,"V1",1,"Yes"),
\* (1,"V1",2,"No"), (2,"V2",absent,absent), get_widths returns [1,2],
\* get_names ["V1","V2"], get_labels {"V1": {1:"Yes", 2:"No"}}, and the
\* line "13" read with labels gives the row V1="Yes", V2=3.
C6_ScenarioAsWritten == ScenarioResults(ScenarioCodebook)

\* C6 amended: these results are those of the codebook whose second row
\* carries no width and no variable-code, (1,"V1",1,"Yes"),
\* (absent,absent,2,"No"), (2,"V2",absent,absent); with the rows as written
\* get_widths returns [1,1,2], get_names ["V1","V1","V2"], get_labels the
\* same mapping, and the read is refused for the duplicate name.
C6_ScenarioLaidOut ==
    /\ ScenarioResults(LayoutCodebook)
    /\ codebook = Some(ScenarioCodebook) =>
          /\ widths # None => widths[1] = <<1, 1, 2>>
          /\ names # None => names[1] = <<Str("V1"), Str("V1"), Str("V2")>>
          /\ pc \in {"get_widths", "get_names", "read_fwf", "raised"}
          /\ pc = "raised" => outcome = Error("ValueError", "read_fwf")

\* the line "13" was read with labels under the laid-out codebook
C6_Witness ==
    /\ ReturnedTable
    /\ codebook = Some(LayoutCodebook)
    /\ label_values = PyBool(TRUE)
    /\ microdata = Some(ScenarioFile)
    /\ labels = Some(ScenarioLabels)
    /\ pnadc[1].rows = << ScenarioRow >>

=============================================================================
